---------------------------- MODULE Spec2Model ----------------------------
(***************************************************************************)
(* Todo list application: the session-storage codec (serializeTodos,       *)
(* parseStoredTodos, loadTodosFromStorage, saveTodosToStorage), the         *)
(* validating loader (loadTodos / saveTodos) and the TodoProvider store.    *)
(***************************************************************************)
EXTENDS Integers, Sequences, FiniteSets, TLC

VARIABLES
  storage,      \* window.sessionStorage: the value under the key 'todos'
  access,       \* how sessionStorage behaves: "ok", "quota", "denied"
  items,        \* StoredTodo[]: plain records handed to parseStoredTodos
  mem,          \* Todo[]: an in-memory collection handed to the codec
  clock,        \* the readings of new Date() taken by the last call
  ret,          \* the outcome of the last codec call
  op,           \* the last codec call
  pre,          \* the storage value and the collection as the last call found them
  todos,        \* TodoProvider: the todos state of the committed render
  isInitialized, \* TodoProvider: the isInitialized state of the committed render
  pendingTodos, \* the value queued by setTodos, not rendered yet
  pendingInit,  \* setIsInitialized(true) is queued, not rendered yet
  microtasks,   \* the saveToStorage calls queued by Promise.resolve().then
  toasts,       \* ToastProvider: the messages shown
  phase,        \* "mount": first render done, effects not run yet; "ready"
  nextId,       \* the number of the next uuid
  hist,         \* history: the collection held at the last reload
  call,         \* the mutator called since the last render, with its arguments
  view          \* TodoItem: the record rendered, the clock and what was shown

codecVars == <<items, mem, clock, ret, op, pre>>
storeVars ==
  <<todos, isInitialized, pendingTodos, pendingInit, microtasks, toasts, phase,
    nextId, hist, call>>
vars == <<storage, access, codecVars, storeVars, view>>

---------------------------------------------------------------------------
(* Bounds of the model *)

\* the largest clock reading, in milliseconds since the epoch
MaxTime == 1
\* the longest sequence of stored entries / in-memory records
MaxItems == 2
\* the largest collection addTodo is let to build in the store
MaxTodos == 2
\* the number of uuids addTodo may draw in one run
MaxAdds == 1
\* the most toasts shown at once
MaxToasts == 1

Times == 0..MaxTime

---------------------------------------------------------------------------
(* JavaScript values as they appear in a JSON-parsed record.  A field is a
   tagged value; t = "undef" is a missing key (reading it gives undefined). *)

Undef == [t |-> "undef", v |-> ""]
Null == [t |-> "null", v |-> ""]
Str(s) == [t |-> "str", v |-> s]
\* a JSON number, kept as its decimal text
Num(s) == [t |-> "num", v |-> s]
Bool(b) == [t |-> "bool", v |-> IF b THEN "true" ELSE "false"]

\* String(x) without the ?? '' default
ToText_NoDefault(x) ==
  CASE x.t = "undef" -> "undefined"
    [] x.t = "null" -> "null"
    [] OTHER -> x.v

\* String(x ?? '')
ToText(x) == IF x.t \in {"undef", "null"} THEN "" ELSE x.v

\* Boolean(x)
ToBoolean(x) ==
  CASE x.t = "bool" -> x.v = "true"
    [] x.t = "str" -> x.v # ""
    [] x.t = "num" -> x.v # "0"
    [] OTHER -> FALSE

---------------------------------------------------------------------------
(* Dates.  A Date object is a time value in ms, an Invalid Date (NaN), or
   missing.  Timestamp strings are built from the millisecond digit. *)

Digit == <<"0", "1", "2", "3", "4", "5", "6", "7", "8", "9">>

DateOf(ms) == [k |-> "date", ms |-> ms]
InvalidDate == [k |-> "invalid", ms |-> 0]
NoDate == [k |-> "undef", ms |-> 0]

\* Date.prototype.toISOString of a valid Date
IsoString(ms) == "1970-01-01T00:00:00.00" \o Digit[ms + 1] \o "Z"

\* the same instant written with a numeric zone offset: Date.parse accepts it
OffsetString(ms) == "1970-01-01T00:00:00.00" \o Digit[ms + 1] \o "+00:00"

\* Date.parse(s): the time value, or NaN
DateParse(s) ==
  IF \E ms \in 0..9 : s \in {IsoString(ms), OffsetString(ms)}
    THEN [finite |-> TRUE,
          ms |-> CHOOSE ms \in 0..9 : s \in {IsoString(ms), OffsetString(ms)}]
    ELSE [finite |-> FALSE, ms |-> 0]

\* new Date(s) for a string s
NewDate(s) == IF DateParse(s).finite THEN DateOf(DateParse(s).ms) ELSE InvalidDate

\* only the typeof check, without Date.parse
isValidIsoDateString_TypeOnly(value) == value.t = "str"

isValidIsoDateString(value) == value.t = "str" /\ DateParse(value.v).finite

---------------------------------------------------------------------------
(* Records *)

\* a StoredTodo-shaped entry of a parsed JSON array (kind "obj"), or an entry
\* that is not an object: null (kind "null") or a number/string (kind "prim")
Obj(id, title, description, completed, createdAt, dueDate) ==
  [kind |-> "obj", id |-> id, title |-> title, description |-> description,
   completed |-> completed, createdAt |-> createdAt, dueDate |-> dueDate]

NonObj(kind) ==
  [kind |-> kind, id |-> Undef, title |-> Undef, description |-> Undef,
   completed |-> Undef, createdAt |-> Undef, dueDate |-> Undef]

\* an in-memory Todo
Todo(id, title, description, completed, createdAt, dueDate) ==
  [id |-> id, title |-> title, description |-> description,
   completed |-> completed, createdAt |-> createdAt, dueDate |-> dueDate]

---------------------------------------------------------------------------
(* The persistence codec: utils/sessionStorage.ts of the due-date version *)

\* the mapping without the dueDate line
serializeTodo_DropsDueDate(todo) ==
  Obj(Str(todo.id), Str(todo.title), Str(todo.description), Bool(todo.completed),
      IF todo.createdAt.k = "date" THEN Str(IsoString(todo.createdAt.ms)) ELSE Undef,
      Undef)

\* one element of serializeTodos' map; createdAt?.toISOString?.() ?? undefined
serializeTodo(todo) ==
  Obj(Str(todo.id), Str(todo.title), Str(todo.description), Bool(todo.completed),
      IF todo.createdAt.k = "date" THEN Str(IsoString(todo.createdAt.ms)) ELSE Undef,
      todo.dueDate)

\* toISOString of an Invalid Date throws a RangeError
serializeThrows(ts) == \E i \in 1..Len(ts) : ts[i].createdAt.k = "invalid"

serializeTodos(ts) ==
  [threw |-> serializeThrows(ts),
   plain |-> IF serializeThrows(ts) THEN <<>>
             ELSE [i \in 1..Len(ts) |-> serializeTodo(ts[i])]]

\* the filter of parseStoredTodos: !!item && typeof item === 'object'
IsObject(item) == item.kind = "obj"

\* the entries of a record sequence that need new Date(): their number is the
\* number of clock readings one parseStoredTodos call takes
NeedsNow(item) == IsObject(item) /\ ~isValidIsoDateString(item.createdAt)

\* new Date(item.createdAt) whatever the string is
parseStoredTodo_NoCreatedDefault(item, now) ==
  Todo(ToText(item.id), ToText(item.title), ToText(item.description),
       ToBoolean(item.completed),
       IF item.createdAt.t = "str" THEN NewDate(item.createdAt.v) ELSE InvalidDate,
       IF isValidIsoDateString(item.dueDate) THEN item.dueDate ELSE Undef)

\* one element of parseStoredTodos' map; now is the reading new Date() gives
parseStoredTodo(item, now) ==
  Todo(ToText(item.id), ToText(item.title), ToText(item.description),
       ToBoolean(item.completed),
       IF isValidIsoDateString(item.createdAt) THEN NewDate(item.createdAt.v)
                                               ELSE DateOf(now),
       IF isValidIsoDateString(item.dueDate) THEN item.dueDate ELSE Undef)

\* one entry that is not an object rejects the whole sequence
parseStoredTodos_AllOrNothing(its, nows) ==
  IF \E i \in 1..Len(its) : ~IsObject(its[i]) THEN <<>>
  ELSE [i \in 1..Len(its) |->
          parseStoredTodo(its[i],
            IF NeedsNow(its[i])
              THEN nows[Len(SelectSeq(SubSeq(its, 1, i), NeedsNow))] ELSE 0)]

\* parseStoredTodos(its); nows[k] is the k-th reading of new Date() in the call
parseStoredTodos(its, nows) ==
  LET kept == SelectSeq(its, IsObject)
      nth(i) == Len(SelectSeq(SubSeq(kept, 1, i), NeedsNow))
  IN [i \in 1..Len(kept) |->
        parseStoredTodo(kept[i], IF NeedsNow(kept[i]) THEN nows[nth(i)] ELSE 0)]

---------------------------------------------------------------------------
(* sessionStorage.  The value under STORAGE_KEY is absent, or a text: the
   empty string, a text that is not JSON, JSON that is not an array, or the
   JSON text of an array of entries. *)

Absent == [kind |-> "absent", items |-> <<>>]
EmptyText == [kind |-> "empty", items |-> <<>>]
Garbage == [kind |-> "garbage", items |-> <<>>]
NonArray == [kind |-> "nonarray", items |-> <<>>]

\* JSON.stringify of an array of plain records (keys whose value is undefined
\* are left out, which is how a record holds them here)
JSONStringify(plain) == [kind |-> "array", items |-> plain]

\* JSON.parse(raw): throws a SyntaxError on a text that is not JSON
JSONParse(raw) ==
  [threw |-> raw.kind \in {"empty", "garbage"},
   isArray |-> raw.kind = "array",
   items |-> raw.items]

\* sessionStorage.getItem / setItem throw when storage is unavailable, and
\* setItem also when the quota is exceeded
getItemThrows(acc) == acc = "denied"
setItemThrows(acc) == acc \in {"quota", "denied"}

\* the number of new Date() readings loadTodosFromStorage takes
LoadReadings(st, acc) ==
  IF getItemThrows(acc) \/ st.kind # "array" THEN 0
  ELSE Len(SelectSeq(st.items, NeedsNow))

\* the try block of loadTodosFromStorage
loadTry(st, acc, nows) ==
  IF getItemThrows(acc) THEN [threw |-> TRUE, todos |-> <<>>]
  ELSE IF st.kind \in {"absent", "empty"} THEN [threw |-> FALSE, todos |-> <<>>]
  ELSE IF JSONParse(st).threw THEN [threw |-> TRUE, todos |-> <<>>]
  ELSE IF ~JSONParse(st).isArray THEN [threw |-> FALSE, todos |-> <<>>]
  ELSE [threw |-> FALSE, todos |-> parseStoredTodos(JSONParse(st).items, nows)]

\* a catch that rethrows
loadTodosFromStorage_Rethrow(st, acc, nows) ==
  [threw |-> loadTry(st, acc, nows).threw,
   todos |-> loadTry(st, acc, nows).todos,
   storage |-> st]

\* getItem called before the try block
loadTodosFromStorage_ReadOutsideTry(st, acc, nows) ==
  [threw |-> getItemThrows(acc),
   todos |-> IF loadTry(st, acc, nows).threw THEN <<>>
             ELSE loadTry(st, acc, nows).todos,
   storage |-> st]

\* loadTodosFromStorage(): catch { return [] }; the storage is left as it is
loadTodosFromStorage(st, acc, nows) ==
  [threw |-> FALSE,
   todos |-> IF loadTry(st, acc, nows).threw THEN <<>>
             ELSE loadTry(st, acc, nows).todos,
   storage |-> st]

\* the try block of saveTodosToStorage
saveTry(ts, st, acc) ==
  IF serializeTodos(ts).threw \/ setItemThrows(acc)
    THEN [threw |-> TRUE, storage |-> st]
    ELSE [threw |-> FALSE, storage |-> JSONStringify(serializeTodos(ts).plain)]

\* no catch around the write
saveTodosToStorage_NoCatch(ts, st, acc) ==
  [threw |-> saveTry(ts, st, acc).threw,
   ok |-> ~saveTry(ts, st, acc).threw,
   todos |-> ts,
   storage |-> saveTry(ts, st, acc).storage]

\* saveTodosToStorage(ts): catch (err) { console.warn(...); return false }
saveTodosToStorage(ts, st, acc) ==
  [threw |-> FALSE,
   ok |-> ~saveTry(ts, st, acc).threw,
   todos |-> ts,
   storage |-> saveTry(ts, st, acc).storage]

---------------------------------------------------------------------------
(* Inputs *)

SeqsUpTo(S, n) == UNION {[1..k -> S] : k \in 0..n}

\* the readings n successive new Date() calls can give
Readings(n) == {r \in [1..n -> Times] : \A i, j \in 1..n : i <= j => r[i] <= r[j]}

TimestampTexts ==
  {Str(IsoString(t)) : t \in Times} \cup {Str(OffsetString(t)) : t \in Times}

Fields == {"id", "title", "description", "completed", "createdAt", "dueDate"}

\* a well-formed stored record, and the entries that differ from it in at
\* most one field
BaseItem == Obj(Str("a"), Str("Task"), Str("Desc"), Bool(FALSE), Str(IsoString(0)), Undef)

ItemChoices ==
  [kind : {"obj"},
   id : {Str("a"), Str("b"), Undef, Null, Num("7")},
   title : {Str("Task"), Undef, Num("7")},
   description : {Str("Desc"), Str(""), Undef},
   completed : {Bool(FALSE), Bool(TRUE), Undef, Str("yes"), Num("0")},
   createdAt : TimestampTexts \cup {Undef, Str("not-a-date"), Num("5")},
   dueDate : TimestampTexts \cup {Undef, Str("not-a-date"), Str(""), Num("5")}]

\* {}: an object with none of the fields
EmptyObject == Obj(Undef, Undef, Undef, Undef, Undef, Undef)
\* a well-formed record with every field set
RichItem ==
  Obj(Str("b"), Str("Task"), Str(""), Bool(TRUE), Str(OffsetString(MaxTime)),
      Str(IsoString(MaxTime)))
\* a record with several fields of the wrong type
BadItem ==
  Obj(Num("7"), Undef, Null, Str("yes"), Str("not-a-date"), Str("not-a-date"))

ItemPool ==
  {x \in ItemChoices : Cardinality({f \in Fields : x[f] # BaseItem[f]}) <= 1}
    \cup {EmptyObject, RichItem, BadItem, NonObj("null"), NonObj("prim")}

\* the entries the storage scenarios are built from
StoragePool ==
  {BaseItem, RichItem, BadItem, EmptyObject, NonObj("null"), NonObj("prim"),
   [BaseItem EXCEPT !.title = Undef], [BaseItem EXCEPT !.id = Num("7")],
   [BaseItem EXCEPT !.createdAt = Str("not-a-date")],
   [BaseItem EXCEPT !.dueDate = Str("not-a-date")]}

StorageStates ==
  {Absent, EmptyText, Garbage, NonArray}
    \cup {JSONStringify(a) : a \in SeqsUpTo(StoragePool, MaxItems)}

\* an in-memory record, and the records that differ from it in at most one field
BaseTodo == Todo("a", "Task", "Desc", FALSE, DateOf(0), Undef)

TodoChoices ==
  [id : {"a", "b"},
   title : {"Task", ""},
   description : {"Desc", ""},
   completed : BOOLEAN,
   createdAt : {DateOf(t) : t \in Times} \cup {InvalidDate, NoDate},
   dueDate : TimestampTexts \cup {Undef, Str("not-a-date")}]

RichTodo == Todo("b", "Task", "", TRUE, DateOf(MaxTime), Str(IsoString(MaxTime)))

TodoPool ==
  {x \in TodoChoices : Cardinality({f \in Fields : x[f] # BaseTodo[f]}) <= 1}
    \cup {RichTodo}

\* the provider before anything is mounted
NoHist ==
  [snap |-> <<>>, clean |-> FALSE, savesOk |-> TRUE, reloaded |-> FALSE,
   loads |-> 0, depth |-> 0]
NoPending == [set |-> FALSE, val |-> <<>>]
\* no mutator was called since the last render
NoCall ==
  [op |-> "none", id |-> "", args |-> <<>>, stacked |-> FALSE,
   afterFail |-> FALSE]
\* no TodoItem was rendered
NoView == [op |-> "none"]

StoreIdle ==
  /\ todos = <<>>
  /\ isInitialized = FALSE
  /\ pendingTodos = NoPending
  /\ pendingInit = FALSE
  /\ microtasks = <<>>
  /\ toasts = <<>>
  /\ phase = "mount"
  /\ nextId = 1
  /\ hist = NoHist
  /\ call = NoCall
  /\ view = NoView

NoRet == [threw |-> FALSE, ok |-> FALSE, todos |-> <<>>, plain |-> <<>>]

---------------------------------------------------------------------------
(* The codec's pure functions, applied to drawn inputs *)

InitCodec ==
  /\ \/ items \in SeqsUpTo(ItemPool, MaxItems) /\ mem = <<>>
     \/ items = <<>> /\ mem \in SeqsUpTo(TodoPool, MaxItems)
  /\ storage = Absent
  /\ access = "ok"
  /\ clock = <<>>
  /\ ret = NoRet
  /\ op = "start"
  /\ pre = [storage |-> Absent, mem |-> <<>>]
  /\ StoreIdle

\* parseStoredTodos(items)
ParseAct ==
  /\ op = "start"
  /\ \E nows \in Readings(Len(SelectSeq(items, NeedsNow))) :
       /\ ret' = [NoRet EXCEPT !.todos = parseStoredTodos(items, nows)]
       /\ clock' = nows
  /\ op' = "parse"
  /\ UNCHANGED <<storage, access, items, mem, pre, storeVars, view>>

\* serializeTodos(mem)
SerializeAct ==
  /\ op = "start"
  /\ ret' = [NoRet EXCEPT !.threw = serializeTodos(mem).threw,
                          !.plain = serializeTodos(mem).plain]
  /\ op' = "serialize"
  /\ UNCHANGED <<storage, access, items, mem, clock, pre, storeVars, view>>

\* parseStoredTodos(serializeTodos(mem)): the parse of what serialize returned
RoundTripAct ==
  /\ op = "serialize"
  /\ ~ret.threw
  /\ \E nows \in Readings(Len(SelectSeq(ret.plain, NeedsNow))) :
       /\ ret' = [ret EXCEPT !.todos = parseStoredTodos(ret.plain, nows)]
       /\ clock' = nows
  /\ op' = "roundtrip"
  /\ UNCHANGED <<storage, access, items, mem, pre, storeVars, view>>

NextCodec == ParseAct \/ SerializeAct \/ RoundTripAct

SpecCodec == InitCodec /\ [][NextCodec]_vars

---------------------------------------------------------------------------
(* The codec's load and save against sessionStorage *)

InitStorage ==
  /\ \/ storage \in StorageStates /\ mem = <<>>
     \/ storage \in {Absent, JSONStringify(<<BaseItem>>)}
          /\ mem \in SeqsUpTo(TodoPool, MaxItems)
  /\ access \in {"ok", "quota", "denied"}
  /\ items = <<>>
  /\ clock = <<>>
  /\ ret = NoRet
  /\ op = "start"
  /\ pre = [storage |-> Absent, mem |-> <<>>]
  /\ StoreIdle

\* loadTodosFromStorage()
LoadAct ==
  /\ \E nows \in Readings(LoadReadings(storage, access)) :
       LET r == loadTodosFromStorage(storage, access, nows)
       IN /\ ret' = [NoRet EXCEPT !.threw = r.threw, !.todos = r.todos]
          /\ storage' = r.storage
          /\ clock' = nows
  /\ op' = "load"
  /\ pre' = [storage |-> storage, mem |-> mem]
  /\ UNCHANGED <<access, items, mem, storeVars, view>>

\* saveTodosToStorage(mem)
SaveAct ==
  /\ LET r == saveTodosToStorage(mem, storage, access)
     IN /\ ret' = [NoRet EXCEPT !.threw = r.threw, !.ok = r.ok]
        /\ storage' = r.storage
        /\ mem' = r.todos
  /\ op' = "save"
  /\ pre' = [storage |-> storage, mem |-> mem]
  /\ clock' = <<>>
  /\ UNCHANGED <<access, items, storeVars, view>>

NextStorage == LoadAct \/ SaveAct

SpecStorage == InitStorage /\ [][NextStorage]_vars

---------------------------------------------------------------------------
(* The validating loader and the saver the provider imports *)

\* one element of isValidTodos' every(); createdAt of a JSON-parsed entry is
\* never a Date, so the instanceof test is false
isValidTodo(item) ==
  /\ item.kind = "obj"
  /\ item.id.t = "str"
  /\ item.title.t = "str"
  /\ item.description.t = "str"
  /\ item.completed.t = "bool"
  /\ item.createdAt.t = "str"

\* isValidTodos(data) for the outcome of JSON.parse
isValidTodos(parsed) ==
  parsed.isArray /\ \A i \in 1..Len(parsed.items) : isValidTodo(parsed.items[i])

\* sessionStorage.removeItem throws when storage is unavailable
removeItemThrows(acc) == acc = "denied"

\* the key after removeItem was called, whether it threw or not
removeItem(st, acc) == IF removeItemThrows(acc) THEN st ELSE Absent

\* createdAt: typeof todo.createdAt === 'string' ? new Date(todo.createdAt) : ...
reviveTodo(item) ==
  Todo(item.id.v, item.title.v, item.description.v, item.completed.v = "true",
       NewDate(item.createdAt.v), item.dueDate)

\* loadTodos(): the collection returned and the key it leaves.  A throw in
\* the try block, removeItem's included, reaches the catch block, whose own
\* removeItem is wrapped in a try
loadTodos(st, acc) ==
  IF getItemThrows(acc)
    THEN [todos |-> <<>>, storage |-> removeItem(st, acc)]
  ELSE IF st.kind \in {"absent", "empty"}
    THEN [todos |-> <<>>, storage |-> st]
  ELSE IF JSONParse(st).threw \/ ~isValidTodos(JSONParse(st))
    THEN [todos |-> <<>>, storage |-> removeItem(st, acc)]
  ELSE [todos |-> [i \in 1..Len(st.items) |-> reviveTodo(st.items[i])],
        storage |-> st]

\* JSON.stringify of one Todo: Date.prototype.toJSON gives the ISO string, and
\* null for an Invalid Date
stringifyTodo(todo) ==
  Obj(Str(todo.id), Str(todo.title), Str(todo.description), Bool(todo.completed),
      CASE todo.createdAt.k = "date" -> Str(IsoString(todo.createdAt.ms))
        [] todo.createdAt.k = "invalid" -> Null
        [] OTHER -> Undef,
      todo.dueDate)

QuotaMessage == "Storage quota exceeded - your latest changes may not be saved."
FailedMessage == "Failed to save todos to sessionStorage"

\* a saver that removes the key when the write fails
saveTodos_ClearsOnFailure(ts, st, acc) ==
  IF setItemThrows(acc)
    THEN [success |-> FALSE,
          error |-> IF acc = "quota" THEN QuotaMessage ELSE FailedMessage,
          storage |-> Absent]
    ELSE [success |-> TRUE, error |-> "",
          storage |-> JSONStringify([i \in 1..Len(ts) |-> stringifyTodo(ts[i])])]

\* saveTodos(ts): JSON.stringify(ts), setItem, { success, error }
saveTodos(ts, st, acc) ==
  IF setItemThrows(acc)
    THEN [success |-> FALSE,
          error |-> IF acc = "quota" THEN QuotaMessage ELSE FailedMessage,
          storage |-> st]
    ELSE [success |-> TRUE, error |-> "",
          storage |-> JSONStringify([i \in 1..Len(ts) |-> stringifyTodo(ts[i])])]

---------------------------------------------------------------------------
(* The validating loader of utils/sessionStorage.ts, whose catch block
   calls removeItem unguarded *)

\* the loader leaving an invalid value under the key
utilsLoadTodos_KeepsKey(st, acc) ==
  IF getItemThrows(acc) \/ st.kind \in {"absent", "empty"}
       \/ JSONParse(st).threw \/ ~isValidTodos(JSONParse(st))
    THEN [threw |-> FALSE, todos |-> <<>>, storage |-> st]
    ELSE [threw |-> FALSE,
          todos |-> [i \in 1..Len(st.items) |-> reviveTodo(st.items[i])],
          storage |-> st]

\* loadTodos() of utils/sessionStorage.ts: whether it throws, the collection
\* it returns and the key it leaves.  A throw in the try block reaches the
\* catch block, and a throw of the catch block's removeItem leaves the
\* function
utilsLoadTodos(st, acc) ==
  LET cleanup ==
        IF removeItemThrows(acc)
          THEN [threw |-> TRUE, todos |-> <<>>, storage |-> st]
          ELSE [threw |-> FALSE, todos |-> <<>>, storage |-> Absent]
  IN IF getItemThrows(acc) THEN cleanup
     ELSE IF st.kind \in {"absent", "empty"}
       THEN [threw |-> FALSE, todos |-> <<>>, storage |-> st]
     ELSE IF JSONParse(st).threw THEN cleanup
     ELSE IF ~isValidTodos(JSONParse(st))
       THEN IF removeItemThrows(acc)
              THEN cleanup
              ELSE [threw |-> FALSE, todos |-> <<>>, storage |-> Absent]
     ELSE [threw |-> FALSE,
           todos |-> [i \in 1..Len(st.items) |-> reviveTodo(st.items[i])],
           storage |-> st]

InitLoader ==
  /\ storage \in StorageStates
  /\ access \in {"ok", "quota", "denied"}
  /\ items = <<>>
  /\ mem = <<>>
  /\ clock = <<>>
  /\ ret = NoRet
  /\ op = "start"
  /\ pre = [storage |-> Absent, mem |-> <<>>]
  /\ StoreIdle

\* loadTodos() called on the page's storage
LoadTodosAct ==
  /\ LET r == utilsLoadTodos(storage, access)
     IN /\ ret' = [NoRet EXCEPT !.threw = r.threw, !.todos = r.todos]
        /\ storage' = r.storage
  /\ op' = "loadTodos"
  /\ pre' = [storage |-> storage, mem |-> mem]
  /\ UNCHANGED <<access, items, mem, clock, storeVars, view>>

NextLoader == LoadTodosAct

SpecLoader == InitLoader /\ [][NextLoader]_vars

---------------------------------------------------------------------------
(* TodoProvider *)

\* what the page may find under the key when the session starts
StoreStorageStates ==
  {Absent, Garbage, JSONStringify(<<>>), JSONStringify(<<BaseItem>>),
   JSONStringify(<<RichItem>>), JSONStringify(<<BaseItem, BaseItem>>),
   JSONStringify(<<[BaseItem EXCEPT !.title = Undef]>>),
   JSONStringify(<<[BaseItem EXCEPT !.createdAt = Str("not-a-date")]>>)}

\* uuidv4(): the n-th identifier drawn
Uuid(n) == "u" \o Digit[n + 1]

\* the ids a caller may pass: those of the rendered records and one that is
\* in no collection
CallIds == {todos[i].id : i \in 1..Len(todos)} \cup {"none"}

\* Partial<Todo> values: a partial update is a function on the fields it sets
Updates ==
  {("title" :> "Edited"),
   ("completed" :> TRUE @@ "dueDate" :> Str(IsoString(0)))}

\* updates[f] ?? todo[f]: a field set to undefined keeps its old value
Merge_SkipsUndefined(todo, updates) ==
  LET get(f) == IF f \in DOMAIN updates /\ ~(f = "dueDate" /\ updates[f] = Undef)
                  THEN updates[f] ELSE todo[f]
  IN Todo(get("id"), get("title"), get("description"), get("completed"),
          get("createdAt"), get("dueDate"))

\* { ...todo, ...updates }
Merge(todo, updates) ==
  LET get(f) == IF f \in DOMAIN updates THEN updates[f] ELSE todo[f]
  IN Todo(get("id"), get("title"), get("description"), get("completed"),
          get("createdAt"), get("dueDate"))

InitStore ==
  /\ storage \in StoreStorageStates
  /\ access \in {"ok", "quota", "denied"}
  /\ items = <<>>
  /\ mem = <<>>
  /\ clock = <<>>
  /\ ret = NoRet
  /\ op = "start"
  /\ pre = [storage |-> Absent, mem |-> <<>>]
  /\ StoreIdle

\* the save effect without its first line: it queues a save whatever
\* isInitialized is
saveEffect_NoGate(init, ts, queue) == Append(queue, ts)

\* the save effect queueing its job twice
saveEffect_Twice(init, ts, queue) ==
  IF ~init THEN queue ELSE Append(Append(queue, ts), ts)

\* the save effect giving up once a save has failed
saveEffect_StopsAfterFailure(init, ts, queue) ==
  IF ~init \/ ~hist.savesOk THEN queue ELSE Append(queue, ts)

\* the save effect of a render with isInitialized = init and todos = ts:
\* if (!isInitialized) return; void Promise.resolve().then(saveToStorage)
saveEffect(init, ts, queue) == IF ~init THEN queue ELSE Append(queue, ts)

\* the load effect without its dependency array: it runs after every render
loadEffectRuns_EveryRender(ph) == TRUE

\* useEffect(..., []): the load effect runs after the first commit only
loadEffectRuns(ph) == ph = "mount"

\* the effects of the first commit: the load effect (loadTodos, setTodos,
\* setIsInitialized(true)) and the save effect, which returns at once because
\* the isInitialized it closes over is false
MountEffects ==
  /\ loadEffectRuns(phase)
  /\ LET r == loadTodos(storage, access)
     IN /\ storage' = r.storage
        /\ pendingTodos' = [set |-> TRUE, val |-> r.todos]
  /\ pendingInit' = TRUE
  /\ microtasks' = saveEffect(isInitialized, todos, microtasks)
  /\ phase' = "ready"
  /\ hist' = [hist EXCEPT !.loads = hist.loads + 1]
  /\ UNCHANGED <<access, codecVars, view, todos, isInitialized, toasts, nextId,
                 call>>

\* React commits the queued state and runs the save effect, whose
\* dependencies [todos, showToast, isInitialized] changed: unless
\* !isInitialized, it queues saveToStorage as a microtask
Render ==
  /\ pendingTodos.set \/ pendingInit
  /\ todos' = IF pendingTodos.set THEN pendingTodos.val ELSE todos
  /\ isInitialized' = (isInitialized \/ pendingInit)
  /\ microtasks' = saveEffect(isInitialized', todos', microtasks)
  /\ pendingTodos' = NoPending
  /\ pendingInit' = FALSE
  /\ call' = NoCall
  /\ hist' = [hist EXCEPT !.depth = IF Len(microtasks') > hist.depth
                                      THEN Len(microtasks') ELSE hist.depth]
  /\ UNCHANGED <<storage, access, codecVars, view, toasts, phase, nextId>>

\* a handler of the rendered tree may run: the hydrated state is rendered and
\* no microtask is left from the event before
CanCall == phase = "ready" /\ ~pendingInit /\ isInitialized /\ microtasks = <<>>

\* the history forgets the reload once the collection is changed
Mutated == [hist EXCEPT !.snap = <<>>, !.clean = FALSE, !.reloaded = FALSE]

\* new Date() in the n-th call of addTodo: the calls are one clock tick apart
Now(n) == n

\* the arguments TodoModal.handleSubmit passes to addTodo: the title, the
\* description and, as a third argument, the due date picked or undefined
AddArgs ==
  {<<"Task", "Desc", Undef>>, <<"Edited", "Desc", Str(IsoString(0))>>}

\* the record addTodo builds; addTodo declares two parameters, and a third
\* argument of the caller is bound to nothing
newTodo(id, args, now) == Todo(id, args[1], args[2], FALSE, DateOf(now), Undef)

\* [...todos, newTodo]
addTodo(ts, id, args, now) == Append(ts, newTodo(id, args, now))

\* the map without the id test: every record is updated
editTodo_EveryRecord(ts, id, updates) ==
  [i \in 1..Len(ts) |-> Merge(ts[i], updates)]

\* todos.map(todo => (todo.id === id ? { ...todo, ...updates } : todo))
editTodo(ts, id, updates) ==
  [i \in 1..Len(ts) |-> IF ts[i].id = id THEN Merge(ts[i], updates) ELSE ts[i]]

\* completed: true instead of !todo.completed
toggleTodoCompletion_SetsTrue(ts, id) ==
  [i \in 1..Len(ts) |->
     IF ts[i].id = id THEN [ts[i] EXCEPT !.completed = TRUE] ELSE ts[i]]

\* todos.map(todo => (todo.id === id ? { ...todo, completed: !todo.completed } : todo))
toggleTodoCompletion(ts, id) ==
  [i \in 1..Len(ts) |->
     IF ts[i].id = id THEN [ts[i] EXCEPT !.completed = ~ts[i].completed]
                      ELSE ts[i]]

\* the filter of deleteTodo
KeepOthers(ts, id) ==
  LET keep(todo) == todo.id # id IN SelectSeq(ts, keep)

\* todos.filter(todo => todo.id !== id)
deleteTodo(ts, id) == KeepOthers(ts, id)

\* the record of a call in the provider: stacked tells that the value an
\* earlier call queued was not rendered yet, so this call's setTodos replaces
\* it; afterFail tells that a save of this page had failed before the call
Called(name) ==
  [NoCall EXCEPT !.op = name, !.stacked = pendingTodos.set,
                 !.afterFail = ~hist.savesOk]

\* addTodo(title, description) called from a handler
AddTodoWhen(can) ==
  /\ can
  /\ Len(todos) < MaxTodos
  /\ nextId <= MaxAdds
  /\ \E args \in AddArgs :
       /\ pendingTodos' =
            [set |-> TRUE,
             val |-> addTodo(todos, Uuid(nextId), args, Now(nextId))]
       /\ call' = Called("add")
  /\ nextId' = nextId + 1
  /\ hist' = Mutated
  /\ UNCHANGED <<storage, access, codecVars, view, todos, isInitialized, pendingInit,
                 microtasks, toasts, phase>>

AddTodo == AddTodoWhen(CanCall)

\* editTodo(id, updates) called from a handler
EditTodo ==
  /\ CanCall
  /\ \E id \in CallIds, updates \in Updates :
       /\ pendingTodos' = [set |-> TRUE, val |-> editTodo(todos, id, updates)]
       /\ call' = Called("edit")
  /\ hist' = Mutated
  /\ UNCHANGED <<storage, access, codecVars, view, todos, isInitialized, pendingInit,
                 microtasks, toasts, phase, nextId>>

\* toggleTodoCompletion(id) called from a handler
ToggleTodoCompletionWhen(can) ==
  /\ can
  /\ \E id \in CallIds :
       /\ pendingTodos' = [set |-> TRUE, val |-> toggleTodoCompletion(todos, id)]
       /\ call' = Called("toggle")
  /\ hist' = Mutated
  /\ UNCHANGED <<storage, access, codecVars, view, todos, isInitialized, pendingInit,
                 microtasks, toasts, phase, nextId>>

ToggleTodoCompletion == ToggleTodoCompletionWhen(CanCall)

\* deleteTodo(id) called from a handler
DeleteTodo ==
  /\ CanCall
  /\ \E id \in CallIds :
       /\ pendingTodos' = [set |-> TRUE, val |-> deleteTodo(todos, id)]
       /\ call' = Called("delete")
  /\ hist' = Mutated
  /\ UNCHANGED <<storage, access, codecVars, view, todos, isInitialized, pendingInit,
                 microtasks, toasts, phase, nextId>>

\* the newest job first
dequeue_NewestFirst(queue) ==
  [run |-> queue[Len(queue)], rest |-> SubSeq(queue, 1, Len(queue) - 1)]

\* the microtask queue is first in, first out
dequeue(queue) == [run |-> Head(queue), rest |-> Tail(queue)]

\* showToast(message, type): setToasts(prev => [...prev, newToast])
showToast(message, type, shown) ==
  Append(shown, [message |-> message, type |-> type])

\* a toast for every outcome, a success included
notify_Always(result, shown) == showToast(result.error, "warning", shown)

\* if (!result.success && result.error) showToast(result.error, 'warning')
notify(result, shown) ==
  IF ~result.success /\ result.error # ""
    THEN showToast(result.error, "warning", shown)
    ELSE shown

\* the oldest queued saveToStorage runs: await saveTodos(todos), then
\* showToast(result.error, 'warning') when the save failed
RunMicrotask ==
  /\ microtasks # <<>>
  /\ LET r == saveTodos(dequeue(microtasks).run, storage, access)
       IN /\ r.success \/ Len(toasts) < MaxToasts
          /\ storage' = r.storage
          /\ toasts' = notify(r, toasts)
          /\ hist' = [hist EXCEPT !.savesOk = hist.savesOk /\ r.success]
  /\ microtasks' = dequeue(microtasks).rest
  /\ UNCHANGED <<access, codecVars, view, todos, isInitialized, pendingTodos,
                 pendingInit, phase, nextId, call>>

\* removeToast(id): the toast's timer or its close button
RemoveToast ==
  /\ toasts # <<>>
  /\ \E i \in 1..Len(toasts) :
       toasts' = SubSeq(toasts, 1, i - 1) \o SubSeq(toasts, i + 1, Len(toasts))
  /\ UNCHANGED <<storage, access, codecVars, view, todos, isInitialized, pendingTodos,
                 pendingInit, microtasks, phase, nextId, hist, call>>

\* the page is reloaded: sessionStorage is kept and a new provider is mounted
Reload ==
  /\ phase = "ready"
  /\ ~pendingTodos.set
  /\ ~pendingInit
  /\ microtasks = <<>>
  /\ todos' = <<>>
  /\ isInitialized' = FALSE
  /\ toasts' = <<>>
  /\ phase' = "mount"
  /\ hist' = [snap |-> todos, clean |-> hist.savesOk, savesOk |-> TRUE,
              reloaded |-> TRUE, loads |-> 0, depth |-> 0]
  /\ UNCHANGED <<storage, access, codecVars, view, pendingTodos, pendingInit,
                 microtasks, nextId, call>>

Next ==
  \/ MountEffects
  \/ Render
  \/ AddTodo
  \/ EditTodo
  \/ ToggleTodoCompletion
  \/ DeleteTodo
  \/ RunMicrotask
  \/ RemoveToast
  \/ Reload

Spec == InitStore /\ [][Next]_vars

---------------------------------------------------------------------------
(* The provider under storage whose writes fail for a while and then work
   again, with handlers that run while earlier saves are still queued *)

MaxPending == 2

\* a handler runs although saves are queued, up to the bound of the model
CanCallQueued ==
  /\ phase = "ready"
  /\ ~pendingInit
  /\ isInitialized
  /\ Len(microtasks) < MaxPending

InitSaves ==
  /\ storage \in {Absent, JSONStringify(<<BaseItem>>)}
  /\ access = "ok"
  /\ items = <<>>
  /\ mem = <<>>
  /\ clock = <<>>
  /\ ret = NoRet
  /\ op = "start"
  /\ pre = [storage |-> Absent, mem |-> <<>>]
  /\ StoreIdle

\* setItem starts or stops throwing QuotaExceededError
StorageFlips ==
  /\ phase = "ready"
  /\ access' = IF access = "ok" THEN "quota" ELSE "ok"
  /\ UNCHANGED <<storage, codecVars, storeVars, view>>

NextSaves ==
  \/ MountEffects
  \/ Render
  \/ AddTodoWhen(CanCallQueued)
  \/ ToggleTodoCompletionWhen(CanCallQueued)
  \/ RunMicrotask
  \/ RemoveToast
  \/ StorageFlips

SpecSaves == InitSaves /\ [][NextSaves]_vars

---------------------------------------------------------------------------
(* The mutators of the provider as functions of the rendered collection *)

\* the records a rendered collection is drawn from: two records may carry
\* the same id, as after hydrating a stored array that repeats one
MutatorPool ==
  {BaseTodo, RichTodo, [BaseTodo EXCEPT !.completed = TRUE],
   [RichTodo EXCEPT !.createdAt = InvalidDate]}

\* updates: Partial<Todo>, any subset of the fields; the second is what
\* TodoModal.handleSubmit passes
PartialUpdates ==
  {("title" :> "Edited"),
   ("title" :> "Edited" @@ "description" :> "" @@ "completed" :> TRUE
      @@ "dueDate" :> Str(IsoString(0))),
   ("dueDate" :> Undef),
   ("id" :> "b"),
   ("createdAt" :> DateOf(MaxTime))}

Ids(ts) == {ts[i].id : i \in 1..Len(ts)}

InitMutators ==
  /\ mem \in SeqsUpTo(MutatorPool, MaxTodos)
  /\ storage = Absent
  /\ access = "ok"
  /\ items = <<>>
  /\ clock = <<>>
  /\ ret = NoRet
  /\ op = "start"
  /\ pre = [storage |-> Absent, mem |-> <<>>]
  /\ StoreIdle

\* addTodo(...args) with todos = mem
AddCall ==
  /\ op = "start"
  /\ \E args \in AddArgs, n \in 1..MaxAdds, now \in Times :
       /\ ret' = [NoRet EXCEPT !.todos = addTodo(mem, Uuid(n), args, now)]
       /\ clock' = <<now>>
       /\ call' = [NoCall EXCEPT !.op = "add", !.id = Uuid(n), !.args = args]
  /\ op' = "add"
  /\ UNCHANGED <<storage, access, items, mem, pre, todos, isInitialized,
                 pendingTodos, pendingInit, microtasks, toasts, phase, nextId,
                 hist, view>>

\* editTodo(id, updates) with todos = mem
EditCall ==
  /\ op = "start"
  /\ \E id \in Ids(mem) \cup {"none"}, updates \in PartialUpdates :
       /\ ret' = [NoRet EXCEPT !.todos = editTodo(mem, id, updates)]
       /\ call' = [NoCall EXCEPT !.op = "edit", !.id = id, !.args = updates]
  /\ op' = "edit"
  /\ UNCHANGED <<storage, access, items, mem, clock, pre, todos, isInitialized,
                 pendingTodos, pendingInit, microtasks, toasts, phase, nextId,
                 hist, view>>

\* toggleTodoCompletion(id) with todos = mem
ToggleCall ==
  /\ op = "start"
  /\ \E id \in Ids(mem) \cup {"none"} :
       /\ ret' = [NoRet EXCEPT !.todos = toggleTodoCompletion(mem, id)]
       /\ call' = [NoCall EXCEPT !.op = "toggle", !.id = id]
  /\ op' = "toggle"
  /\ UNCHANGED <<storage, access, items, mem, clock, pre, todos, isInitialized,
                 pendingTodos, pendingInit, microtasks, toasts, phase, nextId,
                 hist, view>>

\* toggleTodoCompletion(id) once more, with todos = what the first call set
ToggleAgainCall ==
  /\ op = "toggle"
  /\ ret' = [ret EXCEPT !.todos = toggleTodoCompletion(ret.todos, call.id)]
  /\ op' = "toggle2"
  /\ UNCHANGED <<storage, access, items, mem, clock, pre, storeVars, view>>

\* deleteTodo(id) with todos = mem
DeleteCall ==
  /\ op = "start"
  /\ \E id \in Ids(mem) \cup {"none"} :
       /\ ret' = [NoRet EXCEPT !.todos = deleteTodo(mem, id)]
       /\ call' = [NoCall EXCEPT !.op = "delete", !.id = id]
  /\ op' = "delete"
  /\ UNCHANGED <<storage, access, items, mem, clock, pre, todos, isInitialized,
                 pendingTodos, pendingInit, microtasks, toasts, phase, nextId,
                 hist, view>>

NextMutators ==
  \/ AddCall
  \/ EditCall
  \/ ToggleCall
  \/ ToggleAgainCall
  \/ DeleteCall

SpecMutators == InitMutators /\ [][NextMutators]_vars

---------------------------------------------------------------------------
(* TodoItem: the colour of the due-date caption *)

MsPerHour == 3600000
HoursPerDay == 24
MsPerDay == HoursPerDay * MsPerHour

\* the last day, counted from the epoch, a due date or the clock may fall on
MaxDay == 2

\* the instants drawn: the first, a middle and the last hour of each day
Instants ==
  {(d * HoursPerDay + h) * MsPerHour : d \in 0..MaxDay, h \in {0, 11, 23}}

\* the offsets of local time from UTC, in ms: west of, at, and east of Greenwich
Zones == {-5 * MsPerHour, 0, 5 * MsPerHour}

\* Date.prototype.toISOString of an instant on a whole hour
HourString(ms) ==
  LET d == ms \div MsPerDay
      h == (ms % MsPerDay) \div MsPerHour
  IN "1970-01-0" \o Digit[d + 2] \o "T" \o Digit[(h \div 10) + 1]
       \o Digit[(h % 10) + 1] \o ":00:00.000Z"

\* new Date(todo.dueDate) for the due dates drawn
NewDueDate(s) ==
  IF \E ms \in Instants : s = HourString(ms)
    THEN DateOf(CHOOSE ms \in Instants : s = HourString(ms))
    ELSE InvalidDate

\* toStartOfDay(date) in a zone: copy.setHours(0, 0, 0, 0); copy.getTime().
\* The time value of an Invalid Date is NaN, and so is the result
toStartOfDay(date, zone) ==
  IF date.k = "date"
    THEN [nan |-> FALSE,
          ms |-> ((date.ms + zone) \div MsPerDay) * MsPerDay - zone]
    ELSE [nan |-> TRUE, ms |-> 0]

\* a > b on numbers: false when either is NaN
GreaterThan(a, b) == ~a.nan /\ ~b.nan /\ a.ms > b.ms

\* the same rule with >= : a task due today counts as overdue
captionColour_DueTodayCounts(todo, now, zone) ==
  IF todo.dueDate.t = "undef" \/ todo.dueDate.v = "" THEN "none"
  ELSE IF ~todo.completed
          /\ ~GreaterThan(toStartOfDay(NewDueDate(todo.dueDate.v), zone),
                          toStartOfDay(DateOf(now), zone))
          /\ NewDueDate(todo.dueDate.v).k = "date"
    THEN "error.main"
    ELSE "text.secondary"

\* the caption TodoItem renders under the description: none when
\* todo.dueDate is falsy, else its colour
captionColour(todo, now, zone) ==
  IF todo.dueDate.t = "undef" \/ todo.dueDate.v = "" THEN "none"
  ELSE IF ~todo.completed
          /\ GreaterThan(toStartOfDay(DateOf(now), zone),
                         toStartOfDay(NewDueDate(todo.dueDate.v), zone))
    THEN "error.main"
    ELSE "text.secondary"

\* the records TodoItem is given
ViewTodos ==
  {Todo("a", "Task", "Desc", c, DateOf(0), due) :
     c \in BOOLEAN,
     due \in {Undef, Str("not-a-date")} \cup {Str(HourString(ms)) : ms \in Instants}}

InitOverdue ==
  /\ view \in [op : {"start"}, todo : ViewTodos, now : Instants, zone : Zones,
               shown : {"none"}]
  /\ storage = Absent
  /\ access = "ok"
  /\ items = <<>>
  /\ mem = <<>>
  /\ clock = <<>>
  /\ ret = NoRet
  /\ op = "start"
  /\ pre = [storage |-> Absent, mem |-> <<>>]
  /\ todos = <<>>
  /\ isInitialized = FALSE
  /\ pendingTodos = NoPending
  /\ pendingInit = FALSE
  /\ microtasks = <<>>
  /\ toasts = <<>>
  /\ phase = "mount"
  /\ nextId = 1
  /\ hist = NoHist
  /\ call = NoCall

\* TodoItem renders view.todo at view.now
RenderItem ==
  /\ view.op = "start"
  /\ view' = [view EXCEPT !.op = "render",
                          !.shown = captionColour(view.todo, view.now, view.zone)]
  /\ UNCHANGED <<storage, access, codecVars, storeVars>>

NextOverdue == RenderItem

SpecOverdue == InitOverdue /\ [][NextOverdue]_vars

---------------------------------------------------------------------------
(* Properties of the codec *)

\* a valid in-memory collection: every createdAt is a valid Date and every
\* dueDate is absent or a string that parses to a timestamp
ValidCollection(ts) ==
  \A i \in 1..Len(ts) :
    /\ ts[i].createdAt.k = "date"
    /\ ts[i].dueDate = Undef \/ isValidIsoDateString(ts[i].dueDate)

\* the object entries of the parsed sequence, in order
ObjectEntries(its) == SelectSeq(its, IsObject)

\* C1: round trip. For a valid collection, parseStoredTodos(serializeTodos(ts))
\* has the length and order of ts, each record with the same id, title,
\* description, completed and dueDate, and a createdAt of the same instant.
C1_RoundTrip ==
  (op = "roundtrip" /\ ValidCollection(mem)) =>
    /\ Len(ret.todos) = Len(mem)
    /\ \A i \in 1..Len(mem) :
         /\ ret.todos[i].id = mem[i].id
         /\ ret.todos[i].title = mem[i].title
         /\ ret.todos[i].description = mem[i].description
         /\ ret.todos[i].completed = mem[i].completed
         /\ ret.todos[i].dueDate = mem[i].dueDate
         /\ ret.todos[i].createdAt.k = "date"
         /\ ret.todos[i].createdAt.ms = mem[i].createdAt.ms

C1_Witness ==
  /\ op = "roundtrip"
  /\ ValidCollection(mem)
  /\ Len(mem) = 2
  /\ mem[1].dueDate # Undef
  /\ mem[2].createdAt.ms > 0

\* C3: saveTodosToStorage never raises; it returns true exactly when the
\* payload was written under the key (the storage then holds the serialized
\* collection) and false otherwise (the storage is as it was), and the
\* collection passed to it is unchanged.
C3_SaveNeverRaises ==
  op = "save" =>
    /\ ~ret.threw
    /\ ret.ok <=> (access = "ok" /\ ~serializeThrows(mem))
    /\ ret.ok => storage = JSONStringify(serializeTodos(mem).plain)
    /\ ~ret.ok => storage = pre.storage
    /\ mem = pre.mem

C3_Witness ==
  /\ op = "save"
  /\ ~ret.ok
  /\ access = "quota"
  /\ Len(mem) = 2

\* C4: loadTodosFromStorage returns the empty collection, without throwing,
\* when the key is absent and when the stored text is not JSON or is JSON
\* that is not an array.
C4_LoadEmptyOnMissingOrMalformed ==
  (op = "load" /\ access # "denied"
     /\ pre.storage.kind \in {"absent", "garbage", "nonarray"}) =>
    /\ ~ret.threw
    /\ ret.todos = <<>>

C4_Witness == op = "load" /\ access = "ok" /\ pre.storage = Garbage /\ ret.todos = <<>>

\* C5: when load finds a text under the key that does not parse, the key is
\* absent right after load returns.
C5_CorruptKeyDiscarded ==
  (op = "load" /\ access = "ok" /\ pre.storage = Garbage) => storage = Absent

\* C6: loadTodosFromStorage never throws: for every storage state, also one
\* whose read fails, it returns a valid (possibly empty) collection.
C6_LoadNeverThrows ==
  op = "load" =>
    /\ ~ret.threw
    /\ ValidCollection(ret.todos)
    /\ Len(ret.todos) <= Len(pre.storage.items)

C6_Witness == op = "load" /\ access = "denied" /\ pre.storage.kind = "array" /\ pre.storage.items # <<>>

\* C7: parseStoredTodos drops the entries that are not objects one by one: the
\* result holds one record per object entry, in the same order, and each is
\* the record that entry gives when parsed alone.
C7_DropsNonObjectsIndividually ==
  op = "parse" =>
    /\ Len(ret.todos) = Len(ObjectEntries(items))
    /\ \A k \in 1..Len(ObjectEntries(items)) :
         \E t \in Times :
           ret.todos[k] = parseStoredTodo(ObjectEntries(items)[k], t)

C7_Witness ==
  /\ op = "parse"
  /\ Len(items) = 2
  /\ ~IsObject(items[1])
  /\ IsObject(items[2])
  /\ Len(ret.todos) = 1

\* an entry with the four required fields of the right types
WellFormed(item) ==
  /\ IsObject(item)
  /\ item.id.t = "str"
  /\ item.title.t = "str"
  /\ item.description.t = "str"
  /\ item.completed.t = "bool"

\* C8 as stated: a stored record with a wrong field type or a missing required
\* field does not appear in the collection load returns (only the well-formed
\* records do).
C8_MalformedRecordDropped ==
  (op = "load" /\ access = "ok" /\ pre.storage.kind = "array") =>
    Len(ret.todos) = Len(SelectSeq(pre.storage.items, WellFormed))

\* C8 amended: load keeps every object entry, well-formed or not, in order:
\* id, title and description are turned into text ('' when missing or null)
\* and completed into a boolean; a well-formed record keeps its four values;
\* only the entries that are not objects are dropped.
C8_MalformedRecordCoerced ==
  (op = "load" /\ access = "ok" /\ pre.storage.kind = "array") =>
    /\ Len(ret.todos) = Len(ObjectEntries(pre.storage.items))
    /\ \A k \in 1..Len(ObjectEntries(pre.storage.items)) :
         LET e == ObjectEntries(pre.storage.items)[k]
             r == ret.todos[k]
         IN /\ e.id.t \in {"undef", "null"} => r.id = ""
            /\ e.title.t \in {"undef", "null"} => r.title = ""
            /\ e.description.t \in {"undef", "null"} => r.description = ""
            /\ e.id.t \in {"str", "num"} => r.id = e.id.v
            /\ e.title.t \in {"str", "num"} => r.title = e.title.v
            /\ e.completed.t \in {"undef", "null"} => r.completed = FALSE
            /\ e.completed = Str("yes") => r.completed = TRUE
            /\ WellFormed(e) =>
                 /\ r.id = e.id.v
                 /\ r.title = e.title.v
                 /\ r.description = e.description.v
                 /\ r.completed = (e.completed = Bool(TRUE))

C8_Witness ==
  /\ op = "load"
  /\ access = "ok"
  /\ pre.storage.kind = "array"
  /\ Len(pre.storage.items) = 2
  /\ pre.storage.items[1].title = Undef
  /\ IsObject(pre.storage.items[1])
  /\ WellFormed(pre.storage.items[2])
  /\ Len(ret.todos) = 2

\* C9: the parsed dueDate is the stored one when that is a string that parses
\* to a timestamp and unset otherwise; either way the record is kept and its
\* id, title, description, completed and createdAt are preserved.
C9_DueDateTolerance ==
  op = "parse" =>
    /\ Len(ret.todos) = Len(ObjectEntries(items))
    /\ \A k \in 1..Len(ObjectEntries(items)) :
         LET e == ObjectEntries(items)[k]
             r == ret.todos[k]
         IN /\ (e.dueDate.t = "str" /\ DateParse(e.dueDate.v).finite)
                 => r.dueDate = e.dueDate
            /\ ~(e.dueDate.t = "str" /\ DateParse(e.dueDate.v).finite)
                 => r.dueDate = Undef
            /\ e.id.t = "str" => r.id = e.id.v
            /\ e.title.t = "str" => r.title = e.title.v
            /\ e.description.t = "str" => r.description = e.description.v
            /\ e.completed.t = "bool" => r.completed = (e.completed.v = "true")
            /\ (e.createdAt.t = "str" /\ DateParse(e.createdAt.v).finite)
                 => r.createdAt = DateOf(DateParse(e.createdAt.v).ms)

C9_Witness ==
  /\ op = "parse"
  /\ Len(items) = 2
  /\ items[1] = [BaseItem EXCEPT !.dueDate = Str("not-a-date")]
  /\ items[2].dueDate = Str(OffsetString(0))
  /\ Len(ret.todos) = 2
  /\ ret.todos[1].dueDate = Undef

\* the clock reading the k-th kept entry of its was given
ReadingOf(its, k) == Len(SelectSeq(SubSeq(ObjectEntries(its), 1, k), NeedsNow))

\* C10: a stored record whose createdAt is absent or does not parse is kept
\* with createdAt set to the current time; one whose createdAt parses keeps
\* exactly that instant.
C10_CreatedAtDefaultsToNow ==
  op = "parse" =>
    /\ Len(ret.todos) = Len(ObjectEntries(items))
    /\ Len(clock) = Len(SelectSeq(items, NeedsNow))
    /\ \A k \in 1..Len(ObjectEntries(items)) :
         LET e == ObjectEntries(items)[k]
             r == ret.todos[k]
         IN IF e.createdAt.t = "str" /\ DateParse(e.createdAt.v).finite
              THEN r.createdAt = DateOf(DateParse(e.createdAt.v).ms)
              ELSE r.createdAt = DateOf(clock[ReadingOf(items, k)])

C10_Witness ==
  /\ op = "parse"
  /\ Len(items) = 2
  /\ items[1].createdAt = Str("not-a-date")
  /\ items[2].createdAt = Str(OffsetString(MaxTime))
  /\ clock = <<MaxTime>>
  /\ ret.todos[1].createdAt = DateOf(MaxTime)
  /\ ret.todos[2].createdAt = DateOf(MaxTime)


---------------------------------------------------------------------------
(* Properties of the store *)

\* C2: persistence across a reload.  When every save of the page that was
\* left succeeded, the store mounted after the reload holds, once hydrated,
\* the same ordered collection (ids, titles, descriptions, completed flags,
\* dueDates and createdAt instants) as the one held just before the reload.
C2_PersistsAcrossReload ==
  (hist.reloaded /\ hist.clean /\ phase = "ready" /\ isInitialized
     /\ ~pendingTodos.set /\ ~pendingInit)
    => todos = hist.snap

---------------------------------------------------------------------------
(* Properties of TodoItem *)

\* the number of the local calendar day an instant falls on
LocalDay(ms, zone) == (ms + zone) \div MsPerDay

\* the instant a due-date text denotes, when it denotes one
DueInstants(due) == {ms \in Instants : due = Str(HourString(ms))}

\* C11: overdue rule.  A task is shown as overdue exactly when it has a due
\* date, is not completed, and the due date falls on a local calendar day
\* before today's; a task due today, a completed task and a task without a
\* due date are not overdue, and any other clock reading of the same local
\* day gives the same result.
C11_OverdueRule ==
  view.op = "render" =>
    /\ (view.shown = "error.main") <=>
         (/\ ~view.todo.completed
          /\ \E ms \in DueInstants(view.todo.dueDate) :
               LocalDay(ms, view.zone) < LocalDay(view.now, view.zone))
    /\ \A now \in Instants :
         LocalDay(now, view.zone) = LocalDay(view.now, view.zone)
           => captionColour(view.todo, now, view.zone) = view.shown

\* a task due earlier on the day it is rendered, in a zone where that day is
\* not the UTC day, is not shown as overdue
C11_Witness ==
  /\ view.op = "render"
  /\ view.zone # 0
  /\ ~view.todo.completed
  /\ view.shown = "text.secondary"
  /\ \E ms \in DueInstants(view.todo.dueDate) :
       /\ ms < view.now
       /\ ms \div MsPerDay # view.now \div MsPerDay
       /\ LocalDay(ms, view.zone) = LocalDay(view.now, view.zone)

---------------------------------------------------------------------------
(* Properties of the mutators *)

\* C12: mutation no-ops.  editTodo, toggleTodoCompletion and deleteTodo
\* called with an id that no record carries leave the collection as it was,
\* the same records in the same order, and do not raise.
C12_NoOpOnAbsentId ==
  (op \in {"edit", "toggle", "delete"} /\ call.id \notin Ids(mem))
    => ret.todos = mem /\ ~ret.threw

C12_Witness ==
  /\ op = "edit"
  /\ call.id \notin Ids(mem)
  /\ Len(mem) = 2
  /\ "title" \in DOMAIN call.args
  /\ ret.todos = mem

\* C14: the id of a record is never reassigned.  After editTodo with any
\* partial update, toggleTodoCompletion or addTodo, every record of the
\* collection still carries the id it had.
C14_IdNeverReassigned ==
  op \in {"edit", "toggle", "add"} =>
    \A i \in 1..Len(mem) : ret.todos[i].id = mem[i].id

\* C15: createdAt is immutable.  After editTodo with any partial update,
\* toggleTodoCompletion or addTodo, every record of the collection still has
\* the createdAt it had.
C15_CreatedAtImmutable ==
  op \in {"edit", "toggle", "add"} =>
    \A i \in 1..Len(mem) : ret.todos[i].createdAt = mem[i].createdAt

\* C16: addTodo(title, description, dueDate) appends exactly one record and
\* leaves the others as they were; the record has a fresh id, the title and
\* description given, completed = false, createdAt = now and the dueDate
\* given, unset when none was given.
C16_AddAppendsRecord ==
  op = "add" =>
    /\ call.id \notin Ids(mem)
    /\ ret.todos = Append(mem, Todo(call.id, call.args[1], call.args[2], FALSE,
                                    DateOf(clock[1]), call.args[3]))

\* C17: editTodo(id, updates) with the id of a record replaces on that record
\* exactly the fields updates holds, a dueDate set to undefined included, and
\* leaves its other fields, the other records and the order as they were.
C17_EditReplacesGivenFields ==
  (op = "edit" /\ call.id \in Ids(mem)) =>
    /\ Len(ret.todos) = Len(mem)
    /\ \A i \in 1..Len(mem) :
         IF mem[i].id = call.id
           THEN \A f \in Fields :
                  ret.todos[i][f] =
                    IF f \in DOMAIN call.args THEN call.args[f] ELSE mem[i][f]
           ELSE ret.todos[i] = mem[i]

\* a record with a due date is edited with dueDate: undefined beside a
\* record with another id
C17_Witness ==
  /\ op = "edit"
  /\ Len(mem) = 2
  /\ mem[1].id # mem[2].id
  /\ call.id = mem[2].id
  /\ mem[2].dueDate # Undef
  /\ DOMAIN call.args = {"dueDate"}
  /\ ret.todos[2].dueDate = Undef
  /\ ret.todos[2].title = mem[2].title

\* C18: toggleTodoCompletion(id) with the id of a record flips completed on
\* that record and changes nothing else; a second call with the same id
\* gives back the collection the first call started from.
C18_ToggleFlipsAndReverts ==
  /\ (op = "toggle" /\ call.id \in Ids(mem)) =>
       /\ Len(ret.todos) = Len(mem)
       /\ \A i \in 1..Len(mem) :
            IF mem[i].id = call.id
              THEN ret.todos[i] = [mem[i] EXCEPT !.completed = ~mem[i].completed]
              ELSE ret.todos[i] = mem[i]
  /\ op = "toggle2" => ret.todos = mem

\* a completed record was toggled twice beside a record with another id
C18_Witness ==
  /\ op = "toggle2"
  /\ Len(mem) = 2
  /\ mem[1].id # mem[2].id
  /\ call.id = mem[1].id
  /\ mem[1].completed
  /\ ret.todos = mem

---------------------------------------------------------------------------
(* Properties of the store, continued *)

\* C13: id uniqueness.  In every state of the store no two records of the
\* rendered collection carry the same id.
C13_IdsUnique ==
  \A i, j \in 1..Len(todos) : todos[i].id = todos[j].id => i = j

\* C19: deleteTodo(id) with the id of a record removes that one record: the
\* collection it sets is the rendered one less exactly one record, the others
\* kept in their order (and with an id no record carries, less none).
C19_DeleteRemovesOneRecord ==
  call.op = "delete" =>
    \/ pendingTodos.val = todos
    \/ \E k \in 1..Len(todos) :
         pendingTodos.val = SubSeq(todos, 1, k - 1) \o SubSeq(todos, k + 1, Len(todos))

\* C20: save after every mutation.  The collection each mutator call sets is
\* rendered and handed to a save of its own: no call is made on top of a
\* call whose collection was not rendered, which would leave one write
\* attempt for two mutations.
C20_SaveAfterEveryMutation ==
  call.op # "none" => ~call.stacked

C22_HydratesOnce ==
  /\ hist.loads <= 1
  /\ phase = "ready" => hist.loads = 1
  /\ pendingInit =>
       /\ pendingTodos =
            [set |-> TRUE, val |-> loadTodos(storage, access).todos]
       /\ call.op = "none"
  /\ call.op # "none" => hist.loads = 1 /\ isInitialized

\* a mutator was called on a hydrated, non-empty collection
C22_Witness ==
  /\ hist.loads = 1
  /\ call.op = "delete"
  /\ todos # <<>>

\* C24: a save attempt that fails, with the message saveTodos gives for the
\* failure, appends a warning notification carrying that message; a save
\* attempt that succeeds leaves the notifications as they are.
C24_WarningOnFailedSave ==
  [][Len(microtasks') < Len(microtasks) =>
       LET r == saveTodos(Head(microtasks), storage, access)
       IN IF r.success
            THEN toasts' = toasts
            ELSE /\ r.error \in {QuotaMessage, FailedMessage}
                 /\ toasts' =
                      Append(toasts, [message |-> r.error, type |-> "warning"])]_vars

\* the quota warning is on screen and the failed save left the key behind
\* the collection
C24_Witness ==
  /\ toasts = <<[message |-> QuotaMessage, type |-> "warning"]>>
  /\ ~hist.savesOk
  /\ microtasks = <<>>

\* C28: while the provider is not initialized no save is queued or run: the
\* save effect of the first commit returns at its isInitialized test, so the
\* empty starting collection is never written over the stored one.
C28_NoSaveBeforeInitialized ==
  ~isInitialized =>
    /\ microtasks = <<>>
    /\ hist.savesOk
    /\ toasts = <<>>

\* the effects of the first commit have run over a stored collection: the
\* hydration is queued, the provider is not initialized yet and the stored
\* value is still there
C28_Witness ==
  /\ ~isInitialized
  /\ pendingInit
  /\ todos = <<>>
  /\ pendingTodos.val # <<>>
  /\ storage.kind = "array"

\* C27: no mutation is lost: a mutator called while the collection queued
\* by an earlier call is not rendered yet queues that collection with its
\* own change applied, so the result reflects both calls.
C27_NoMutationLost ==
  [][(pendingTodos.set /\ call'.op # "none" /\ call'.stacked
        /\ toasts' = toasts) =>
       LET before == pendingTodos.val
           after == pendingTodos'.val
       IN CASE call'.op = "add" ->
                 \E args \in AddArgs :
                   after = addTodo(before, Uuid(nextId), args, Now(nextId))
            [] call'.op = "edit" ->
                 \E id \in CallIds, updates \in Updates :
                   after = editTodo(before, id, updates)
            [] call'.op = "toggle" ->
                 \E id \in CallIds : after = toggleTodoCompletion(before, id)
            [] OTHER ->
                 \E id \in CallIds : after = deleteTodo(before, id)]_vars

\* the claim's valid todo object: string id, title and description, boolean
\* completed, createdAt a string (a parsed JSON value is never a Date)
ValidStoredTodo(item) ==
  /\ item.kind = "obj"
  /\ item.id.t = "str" /\ item.title.t = "str" /\ item.description.t = "str"
  /\ item.completed.t = "bool"
  /\ item.createdAt.t = "str"

\* the text is valid JSON but not an array of valid todo objects
InvalidStoredTodos(st) ==
  \/ st.kind = "nonarray"
  \/ st.kind = "array"
       /\ \E i \in 1..Len(st.items) : ~ValidStoredTodo(st.items[i])

\* C25: when the text loadTodos reads under the key is valid JSON but not an
\* array whose every element is a valid todo object, loadTodos returns the
\* empty array and removes the key.
C25_InvalidDataCleared ==
  (op = "loadTodos" /\ ~getItemThrows(access) /\ InvalidStoredTodos(pre.storage))
    => /\ ~ret.threw
       /\ ret.todos = <<>>
       /\ storage = Absent

\* an array with a record that lacks its title, after a valid one, was read
\* and cleared
C25_Witness ==
  /\ op = "loadTodos"
  /\ access = "ok"
  /\ pre.storage = JSONStringify(<<BaseItem, [BaseItem EXCEPT !.title = Undef]>>)
  /\ storage = Absent
  /\ ret.todos = <<>>

\* C26: loadTodos of utils/sessionStorage.ts does not throw when storage
\* access fails: if reading the key throws it returns the empty array, even
\* when the cleanup removal of the key throws too.
C26_LoadTodosNeverThrows ==
  (op = "loadTodos" /\ getItemThrows(access)) =>
    ~ret.threw /\ ret.todos = <<>>

\* the text a successful save of the collection writes
WrittenFor(ts) == JSONStringify([i \in 1..Len(ts) |-> stringifyTodo(ts[i])])

\* C23: the store keeps working after a storage write failure: a save
\* attempt, failed or not, leaves the in-memory collection and the queued
\* one as they are; a mutator called after a failed save has its result
\* committed by the next render, and that render queues a save of it.
C23_WorksAfterWriteFailure ==
  [][/\ Len(microtasks') < Len(microtasks) =>
          /\ todos' = todos
          /\ pendingTodos' = pendingTodos
          /\ isInitialized' = isInitialized
     /\ (call.afterFail /\ pendingTodos.set /\ ~pendingTodos'.set) =>
          /\ todos' = pendingTodos.val
          /\ microtasks' = Append(microtasks, todos')]_vars

\* addTodo was called after a save had failed and left the key behind the
\* collection: the record is queued for the next render
C23_Witness ==
  /\ call.afterFail
  /\ call.op = "add"
  /\ microtasks = <<>>
  /\ storage # WrittenFor(todos)
  /\ pendingTodos.set
  /\ Len(pendingTodos.val) = Len(todos) + 1

\* C29: the queued saves run in the order of the renders that queued them:
\* when every write of the page has succeeded and no save and no state
\* change is pending, the stored value is the serialization of the
\* collection in memory, never of an older one.
C29_StoredIsLatest ==
  (isInitialized /\ hist.savesOk /\ microtasks = <<>>
     /\ ~pendingTodos.set /\ ~pendingInit)
    => storage = WrittenFor(todos)

\* two saves were queued at once, both have run and written, and the key
\* holds the collection in memory
C29_Witness ==
  /\ hist.depth >= 2
  /\ hist.savesOk
  /\ microtasks = <<>>
  /\ ~pendingTodos.set
  /\ todos # <<>>
  /\ storage = WrittenFor(todos)

====
